---- MODULE Spec2Model ----
(***************************************************************************)
(* Model of the UpLyft backend: the CSV importer (Server/import_products.py)*)
(* and the serving endpoints (Server/app.py) over the products.db store.   *)
(*                                                                         *)
(* The importer is modelled one loop iteration per step, so that the state *)
(* of the store between the rows of a run is visible.  The endpoints run   *)
(* in another process (the Flask server) and may be called at any time;    *)
(* they see the committed store only.                                      *)
(*                                                                         *)
(* Values.  A text is a sequence of one-character strings.  A float is a   *)
(* record [k, m, e]: k = "fin" is the decimal m / 10^e in lowest form,     *)
(* k = "inf" is +inf (m = 1) or -inf (m = -1), k = "nan" is NaN.  A cell   *)
(* of the DataFrame is [t, s, v]: t = "na" (NaN / None), t = "str" with    *)
(* text s, or t = "float" with float v.                                    *)
(***************************************************************************)
EXTENDS Integers, Sequences, FiniteSets, TLC

\* ---- bounds ----
MaxRows == 2
MaxRuns == 2

VARIABLES
    csv,            \* data.csv as pandas reads it
    db,             \* products.db, committed state
    txn,            \* the importer connection's uncommitted view of products
    conn,           \* import_products: conn
    pc,             \* import_products: position ("idle" between runs, "loop")
    index,          \* import_products: number of rows of df already iterated
    imported_count, \* import_products: imported_count
    skipped_count,  \* import_products: skipped_count
    log,            \* what the finished runs printed, oldest first
    resp            \* last HTTP response of the server

vars == <<csv, db, txn, conn, pc, index, imported_count, skipped_count, log, resp>>

\* ---- Python / pandas values ----
None == [t |-> "na", s |-> <<>>, v |-> [k |-> "nan", m |-> 0, e |-> 0]]

StrCell(s) == [t |-> "str", s |-> s, v |-> [k |-> "nan", m |-> 0, e |-> 0]]

FloatCell(f) == [t |-> "float", s |-> <<>>, v |-> f]

Fin(m, e) == [k |-> "fin", m |-> m, e |-> e]

Inf(sign) == [k |-> "inf", m |-> sign, e |-> 0]

NaN == [k |-> "nan", m |-> 0, e |-> 0]

Whitespace == {" "}

Digits == {"0", "1", "2", "3", "4", "5", "6", "7", "8", "9"}

DigitVal(c) ==
    CASE c = "0" -> 0 [] c = "1" -> 1 [] c = "2" -> 2 [] c = "3" -> 3
      [] c = "4" -> 4 [] c = "5" -> 5 [] c = "6" -> 6 [] c = "7" -> 7
      [] c = "8" -> 8 [] c = "9" -> 9

\* str.strip(): drop leading and trailing whitespace
RECURSIVE LStrip(_)
LStrip(s) ==
    IF s # <<>> /\ Head(s) \in Whitespace THEN LStrip(Tail(s)) ELSE s

RECURSIVE RStrip(_)
RStrip(s) ==
    IF s # <<>> /\ s[Len(s)] \in Whitespace
    THEN RStrip(SubSeq(s, 1, Len(s) - 1)) ELSE s

\* variant: only the leading whitespace is dropped (lstrip)
Strip_LeadingOnly(s) == LStrip(s)

Strip(s) == RStrip(LStrip(s))

\* variant: only None counts as missing, a float NaN does not
IsNa_NoneOnly(c) == c.t = "na"

\* pd.isna on a scalar: None, or a float NaN
IsNa(c) == c.t = "na" \/ (c.t = "float" /\ c.v.k = "nan")

\* str(x) of a cell that is not NA.  Description cells are str objects, for
\* which str() returns the object itself.
Str(c) == c.s

RECURSIVE DigitsVal(_)
DigitsVal(ds) ==
    IF ds = <<>> THEN 0
    ELSE 10 * DigitsVal(SubSeq(ds, 1, Len(ds) - 1)) + DigitVal(ds[Len(ds)])

AllDigits(ds) == \A i \in 1..Len(ds) : ds[i] \in Digits

\* lowest form of m / 10^e  (2.50 = 2.5)
RECURSIVE Lowest(_, _)
Lowest(m, e) ==
    IF e > 0 /\ m % 10 = 0 THEN Lowest(m \div 10, e - 1) ELSE Fin(m, e)

Negate(f) == [f EXCEPT !.m = 0 - f.m]

\* position of the first "." of ds, or 0
FirstDot(ds) ==
    IF \E i \in 1..Len(ds) : ds[i] = "."
    THEN CHOOSE i \in 1..Len(ds) : ds[i] = "." /\ \A j \in 1..(i - 1) : ds[j] # "."
    ELSE 0

\* float(<str>) on an unsigned body: [ok, f]; ok = FALSE is ValueError.
\* Covers decimals without exponent, "inf" and "nan" (lower case).
FloatBody(b) ==
    IF b = <<"i", "n", "f">> THEN [ok |-> TRUE, f |-> Inf(1)]
    ELSE IF b = <<"n", "a", "n">> THEN [ok |-> TRUE, f |-> NaN]
    ELSE LET d  == FirstDot(b)
             ip == IF d = 0 THEN b ELSE SubSeq(b, 1, d - 1)
             fp == IF d = 0 THEN <<>> ELSE SubSeq(b, d + 1, Len(b))
         IN  IF AllDigits(ip) /\ AllDigits(fp) /\ Len(ip) + Len(fp) > 0
             THEN [ok |-> TRUE, f |-> Lowest(DigitsVal(ip \o fp), Len(fp))]
             ELSE [ok |-> FALSE, f |-> NaN]

\* float(x): a float is returned as is; a str is stripped, an optional sign
\* is read, then the body.
PyFloat(c) ==
    IF c.t = "float" THEN [ok |-> TRUE, f |-> c.v]
    ELSE LET t == Strip(c.s)
         IN  IF t # <<>> /\ Head(t) = "-"
             THEN LET r == FloatBody(Tail(t))
                  IN  [ok |-> r.ok, f |-> IF r.ok THEN Negate(r.f) ELSE NaN]
             ELSE IF t # <<>> /\ Head(t) = "+" THEN FloatBody(Tail(t))
             ELSE FloatBody(t)

\* ---- the store (sqlite) ----
\* SQL NULL
Null == [k |-> "null", m |-> 0, e |-> 0]

\* sqlite3 binds a Python float with sqlite3_bind_double, which stores NaN
\* as NULL; every other float is stored as it is.
BindReal(f) == IF f.k = "nan" THEN Null ELSE f

\* products.price is REAL NOT NULL, products.product_name is TEXT NOT NULL;
\* product_name is always bound from a str.
NotNullOk(price) == price # Null

\* variant: the id counts the inserts of the current run
NextId_PerRun(t) == imported_count + 1

\* id INTEGER PRIMARY KEY AUTOINCREMENT: one more than the largest id ever
\* used, kept in sqlite_sequence (t.seq), which is part of the transaction.
NextId(t) == t.seq + 1

ProductRecord(id, name, price) ==
    [id |-> id, product_name |-> name, description |-> Null,
     price |-> price, category |-> Null, image_url |-> Null]

NoTxn == [rows |-> <<>>, seq |-> 0]

\* ---- data.csv ----
\* Cells pandas produces in a column that is present: NaN for an empty
\* field, otherwise the text of the field or a parsed number.
DescriptionCells ==
    { FloatCell(NaN),
      StrCell(<<" ">>),
      StrCell(<<" ", "a", " ", "b", " ">>) }

UnitPriceCells ==
    { FloatCell(NaN),
      StrCell(<<"a">>),
      StrCell(<<"2", ".", "5", "0">>),
      StrCell(<<"-", "1">>),
      StrCell(<<" ", "n", "a", "n">>),
      FloatCell(Inf(1)) }

Columns == {"Description", "UnitPrice"}

\* rows of a file whose header has the columns cols (other columns of the
\* file are never read); the field of an absent column is not there, and
\* is written None
RowsOf(cols) ==
    [Description : IF "Description" \in cols THEN DescriptionCells ELSE {None},
     UnitPrice   : IF "UnitPrice" \in cols THEN UnitPriceCells ELSE {None}]

SeqsUpTo(S, n) == UNION {[1..k -> S] : k \in 0..n}

MissingFile == [exists |-> FALSE, header |-> FALSE, columns |-> {}, rows |-> <<>>]

EmptyFile == [exists |-> TRUE, header |-> FALSE, columns |-> {}, rows |-> <<>>]

Files ==
    {MissingFile, EmptyFile} \cup
    UNION { [exists : {TRUE}, header : {TRUE}, columns : {cols},
             rows : SeqsUpTo(RowsOf(cols), MaxRows)] : cols \in SUBSET Columns }

\* row.get(col): the cell, or None when the row has no such column
RowGet(row, col) == IF col \in csv.columns THEN row[col] ELSE None

\* an HTTP response of app.py: status code, which body, and the products of
\* a listing
Response(status, kind, products) ==
    [status |-> status, kind |-> kind, products |-> products]

\* ---- import_products ----
Report(outcome) ==
    [outcome |-> outcome, imported |-> imported_count, skipped |-> skipped_count]

Init ==
    /\ csv \in Files
    /\ db = [exists |-> FALSE, table |-> FALSE, rows |-> <<>>, seq |-> 0]
    /\ txn = NoTxn
    /\ conn = "None"
    /\ pc = "idle"
    /\ index = 0
    /\ imported_count = 0
    /\ skipped_count = 0
    /\ log = <<>>
    /\ resp = Response(0, "none", <<>>)

\* variant: the connection is opened and the table created before the
\* file is read
ImportSourceMissing_ConnectFirst ==
    /\ pc = "idle" /\ Len(log) < MaxRuns
    /\ ~csv.exists
    /\ conn' = "closed"
    /\ db' = [db EXCEPT !.exists = TRUE, !.table = TRUE]
    /\ index' = 0 /\ imported_count' = 0 /\ skipped_count' = 0
    /\ log' = Append(log, [outcome |-> "source_missing", imported |-> 0, skipped |-> 0])
    /\ UNCHANGED <<csv, txn, pc, resp>>

\* pd.read_csv raises FileNotFoundError: conn is still None
ImportSourceMissing ==
    /\ pc = "idle" /\ Len(log) < MaxRuns
    /\ ~csv.exists
    /\ conn' = "None"
    /\ index' = 0 /\ imported_count' = 0 /\ skipped_count' = 0
    /\ log' = Append(log, [outcome |-> "source_missing", imported |-> 0, skipped |-> 0])
    /\ UNCHANGED <<csv, db, txn, pc, resp>>

\* variant: a file without a header line is read as zero rows and the run
\* completes
ImportEmptyData_AsZeroRows ==
    /\ pc = "idle" /\ Len(log) < MaxRuns
    /\ csv.exists /\ ~csv.header
    /\ conn' = "closed"
    /\ db' = [db EXCEPT !.exists = TRUE, !.table = TRUE]
    /\ index' = 0 /\ imported_count' = 0 /\ skipped_count' = 0
    /\ log' = Append(log, [outcome |-> "completed", imported |-> 0, skipped |-> 0])
    /\ UNCHANGED <<csv, txn, pc, resp>>

\* pd.read_csv raises EmptyDataError (no header line to parse)
ImportEmptyData ==
    /\ pc = "idle" /\ Len(log) < MaxRuns
    /\ csv.exists /\ ~csv.header
    /\ conn' = "None"
    /\ index' = 0 /\ imported_count' = 0 /\ skipped_count' = 0
    /\ log' = Append(log, [outcome |-> "empty_source", imported |-> 0, skipped |-> 0])
    /\ UNCHANGED <<csv, db, txn, pc, resp>>

\* read_csv returns df; connect; CREATE TABLE IF NOT EXISTS (autocommitted);
\* counters set to 0
ImportBegin ==
    /\ pc = "idle" /\ Len(log) < MaxRuns
    /\ csv.exists /\ csv.header
    /\ conn' = "open"
    /\ db' = [db EXCEPT !.exists = TRUE, !.table = TRUE]
    /\ txn' = [rows |-> db.rows, seq |-> db.seq]
    /\ index' = 0 /\ imported_count' = 0 /\ skipped_count' = 0
    /\ pc' = "loop"
    /\ UNCHANGED <<csv, log, resp>>

\* variant: the row is passed over without being counted
Skip_NotCounted ==
    /\ index' = index + 1
    /\ UNCHANGED <<csv, db, txn, conn, pc, imported_count, skipped_count, log, resp>>

\* a row that fails a validation: count it and continue
Skip ==
    /\ skipped_count' = skipped_count + 1
    /\ index' = index + 1
    /\ UNCHANGED <<csv, db, txn, conn, pc, imported_count, log, resp>>

\* cursor.execute(INSERT ...) accepted
Insert(name, price) ==
    /\ txn' = [rows |-> Append(txn.rows, ProductRecord(NextId(txn), name, price)),
               seq  |-> NextId(txn)]
    /\ imported_count' = imported_count + 1
    /\ index' = index + 1
    /\ UNCHANGED <<csv, db, conn, pc, skipped_count, log, resp>>

\* variant: the connection is closed after a commit instead of a rollback
Abort_NoRollback ==
    /\ db' = [db EXCEPT !.rows = txn.rows, !.seq = txn.seq]
    /\ txn' = NoTxn
    /\ conn' = "closed"
    /\ pc' = "idle"
    /\ log' = Append(log, Report("unexpected_error"))
    /\ UNCHANGED <<csv, index, imported_count, skipped_count, resp>>

\* except Exception: rollback, then finally: close
Abort ==
    /\ txn' = NoTxn
    /\ conn' = "closed"
    /\ pc' = "idle"
    /\ log' = Append(log, Report("unexpected_error"))
    /\ UNCHANGED <<csv, db, index, imported_count, skipped_count, resp>>

\* one iteration of: for index, row in df.iterrows().  cursor.execute may
\* raise for a reason outside the program (raises: the database is locked,
\* the disk is full); it does raise IntegrityError when price is bound NULL.
ProcessRow ==
    /\ pc = "loop" /\ index < Len(csv.rows)
    /\ \E raises \in BOOLEAN :
       LET row == csv.rows[index + 1]
           product_name_from_csv == RowGet(row, "Description")
           price_from_csv == RowGet(row, "UnitPrice")
       IN  IF IsNa(product_name_from_csv)
              \/ Strip(Str(product_name_from_csv)) = <<>>
           THEN Skip
           ELSE IF IsNa(price_from_csv)
           THEN Skip
           ELSE LET r == PyFloat(price_from_csv)
                IN  IF ~r.ok
                    THEN Skip
                    ELSE LET price_value == BindReal(r.f)
                         IN  IF NotNullOk(price_value) /\ ~raises
                             THEN Insert(Strip(Str(product_name_from_csv)),
                                         price_value)
                             ELSE Abort

\* after the loop: conn.commit(), the summary, finally: close.  commit does
\* nothing when no INSERT opened a transaction; otherwise it writes and may
\* raise (raises), which is handled like any other exception.
ImportCommit ==
    /\ pc = "loop" /\ index = Len(csv.rows)
    /\ \E raises \in BOOLEAN :
       IF raises /\ txn.rows # db.rows
       THEN Abort
       ELSE /\ db' = [db EXCEPT !.rows = txn.rows, !.seq = txn.seq]
            /\ txn' = NoTxn
            /\ conn' = "closed"
            /\ pc' = "idle"
            /\ log' = Append(log, Report("completed"))
            /\ UNCHANGED <<csv, index, imported_count, skipped_count, resp>>

\* ---- app.py: the serving endpoints ----
\* variant: the endpoint empties the table it reads
ConnectAndSelect_Truncating(d) == [d EXCEPT !.exists = TRUE, !.rows = <<>>]

\* sqlite3.connect("products.db") followed by a SELECT: the file is created
\* when it is not there; no table and no row is written
ConnectAndSelect(d) == [d EXCEPT !.exists = TRUE]

\* request.get_json(): no JSON body, or a dict with or without the key
ChatRequests == {"no_json", "no_message", "empty_message", "message"}

GeminiOutcomes == {"text", "no_text", "raises"}

OtplessRequests == {"no_json", "no_token", "token"}

VerifyOutcomes == {"not_200", "bad_json", "user_with_name", "user_without_name"}

\* GET /api/products
get_products ==
    /\ db' = ConnectAndSelect(db)
    /\ resp' = IF db.table
               THEN Response(200, "products", db.rows)
               ELSE Response(500, "error", <<>>)
    /\ UNCHANGED <<csv, txn, conn, pc, index, imported_count, skipped_count, log>>

\* POST /api/chat
chat ==
    \E data \in ChatRequests, gemini \in GeminiOutcomes :
        IF data = "no_json"
        THEN /\ resp' = Response(500, "error", <<>>)
             /\ UNCHANGED <<csv, db, txn, conn, pc, index, imported_count,
                            skipped_count, log>>
        ELSE IF data \in {"no_message", "empty_message"}
        THEN /\ resp' = Response(400, "no_message", <<>>)
             /\ UNCHANGED <<csv, db, txn, conn, pc, index, imported_count,
                            skipped_count, log>>
        ELSE /\ db' = ConnectAndSelect(db)
             /\ resp' = IF db.table /\ gemini = "text"
                        THEN Response(200, "reply", <<>>)
                        ELSE Response(500, "error", <<>>)
             /\ UNCHANGED <<csv, txn, conn, pc, index, imported_count,
                            skipped_count, log>>

\* POST /api/auth/otpless-verify
otpless_verify ==
    \E data \in OtplessRequests, verify \in VerifyOutcomes :
        /\ resp' = IF data = "no_json" THEN Response(500, "error", <<>>)
                   ELSE IF data = "no_token" THEN Response(400, "missing_token", <<>>)
                   ELSE IF verify = "not_200" THEN Response(401, "verify_failed", <<>>)
                   ELSE IF verify = "bad_json" THEN Response(500, "error", <<>>)
                   ELSE IF verify = "user_with_name" THEN Response(200, "user", <<>>)
                   ELSE Response(200, "default_user", <<>>)
        /\ UNCHANGED <<csv, db, txn, conn, pc, index, imported_count,
                       skipped_count, log>>

Next ==
    \/ ImportSourceMissing
    \/ ImportEmptyData
    \/ ImportBegin
    \/ ProcessRow
    \/ ImportCommit
    \/ get_products
    \/ chat
    \/ otpless_verify

Spec == Init /\ [][Next]_vars

\* ---- properties ----
Last(q) == q[Len(q)]

\* a step of import_products (the endpoints change none of these)
ImporterStep == <<pc, index, log>>' # <<pc, index, log>>

\* a step that ends the run in the handler of an unexpected exception
AbortStep == log' # log /\ Last(log').outcome = "unexpected_error"

\* the Description of a row is there and is not only whitespace
HasDescription(c) == c.t = "str" /\ \E i \in 1..Len(c.s) : c.s[i] \notin Whitespace

\* t is s without its leading and trailing whitespace (s not all whitespace)
IsTrimOf(t, s) ==
    \E i \in 1..Len(s), j \in 1..Len(s) :
        /\ i <= j
        /\ t = SubSeq(s, i, j)
        /\ s[i] \notin Whitespace /\ s[j] \notin Whitespace
        /\ \A n \in 1..Len(s) : (n < i \/ n > j) => s[n] \in Whitespace

IsMissing(c) == c.t = "na" \/ (c.t = "float" /\ c.v.k = "nan")

\* the UnitPrice of a row is a number (NaN is not a number)
IsNumeric(c) == ~IsMissing(c) /\ PyFloat(c).ok /\ PyFloat(c).f.k # "nan"

ValidRow(row) ==
    /\ HasDescription(RowGet(row, "Description"))
    /\ IsNumeric(RowGet(row, "UnitPrice"))

\* the row fails one of the validations of the loop
FailsValidation(row) ==
    \/ ~HasDescription(RowGet(row, "Description"))
    \/ IsMissing(RowGet(row, "UnitPrice"))
    \/ ~PyFloat(RowGet(row, "UnitPrice")).ok

NValid == Cardinality({i \in 1..Len(csv.rows) : ValidRow(csv.rows[i])})

NInvalid == Cardinality({i \in 1..Len(csv.rows) : ~ValidRow(csv.rows[i])})

CompletedRuns == Cardinality({i \in 1..Len(log) : log[i].outcome = "completed"})

\* C1: a row with a non-empty trimmed Description and a numeric UnitPrice,
\* when the loop processes it and the store accepts the statement, adds
\* exactly one record: product_name is the trimmed Description, price the
\* parsed UnitPrice, description, category and image_url NULL.
C1_ValidRowInserted ==
    [][ ( /\ pc = "loop" /\ index < Len(csv.rows)
          /\ ImporterStep /\ ~AbortStep
          /\ ValidRow(csv.rows[index + 1]) )
        => /\ Len(txn'.rows) = Len(txn.rows) + 1
           /\ SubSeq(txn'.rows, 1, Len(txn.rows)) = txn.rows
           /\ imported_count' = imported_count + 1
           /\ skipped_count' = skipped_count
           /\ IsTrimOf(Last(txn'.rows).product_name,
                       RowGet(csv.rows[index + 1], "Description").s)
           /\ Last(txn'.rows).price = PyFloat(RowGet(csv.rows[index + 1], "UnitPrice")).f
           /\ Last(txn'.rows).description = Null
           /\ Last(txn'.rows).category = Null
           /\ Last(txn'.rows).image_url = Null ]_vars

\* the row " a b ", "2.50" has just been inserted as "a b", 2.5
C1_Witness ==
    /\ pc = "loop" /\ index >= 1
    /\ csv.rows[index].Description = StrCell(<<" ", "a", " ", "b", " ">>)
    /\ csv.rows[index].UnitPrice = StrCell(<<"2", ".", "5", "0">>)
    /\ Len(txn.rows) > Len(db.rows)
    /\ Last(txn.rows).product_name = <<"a", " ", "b">>
    /\ Last(txn.rows).price = Fin(25, 1)

\* C2: a run that completes adds as many records to the committed store as
\* the source has valid rows and reports as many skips as it has invalid
\* rows; the two counts add up to the number of rows read.
C2_CompletedRunCounts ==
    [][ (log' # log /\ Last(log').outcome = "completed")
        => /\ Len(db'.rows) = Len(db.rows) + NValid
           /\ SubSeq(db'.rows, 1, Len(db.rows)) = db.rows
           /\ Last(log').imported = NValid
           /\ Last(log').skipped = NInvalid
           /\ Last(log').imported + Last(log').skipped = Len(csv.rows) ]_vars

\* a completed run over a source with a valid and an invalid row
C2_Witness ==
    /\ log # <<>> /\ Last(log).outcome = "completed"
    /\ NValid >= 1 /\ NInvalid >= 1
    /\ Last(log).imported = NValid /\ Last(log).skipped = NInvalid
    /\ Len(db.rows) >= 1

\* C3: every persisted record has a non-empty product_name and a finite
\* price.
C3_PersistedFinite ==
    \A i \in 1..Len(db.rows) :
        db.rows[i].product_name # <<>> /\ db.rows[i].price.k = "fin"

C5_RollbackOnError ==
    [][ /\ AbortStep
           => /\ db' = db /\ txn' = NoTxn
              /\ pc = "loop" /\ pc' = "idle" /\ index' = index
              /\ conn' = "closed"
        /\ db'.rows # db.rows
           => /\ pc = "loop" /\ index = Len(csv.rows)
              /\ log' # log /\ Last(log').outcome = "completed"
              /\ db'.rows = txn.rows ]_vars

\* a run failed after an insert, with a row left, over a store that an
\* earlier run had filled
C5_Witness ==
    /\ pc = "idle" /\ log # <<>>
    /\ Last(log).outcome = "unexpected_error"
    /\ Last(log).imported >= 1
    /\ index < Len(csv.rows)
    /\ db.rows # <<>> /\ txn = NoTxn

\* C6: with no source file every run ends as "source missing"; the importer
\* opens no connection, and the store has no products table and no record.
C6_SourceMissing ==
    ~csv.exists
    => /\ \A i \in 1..Len(log) :
              log[i] = [outcome |-> "source_missing", imported |-> 0, skipped |-> 0]
       /\ conn = "None" /\ txn = NoTxn /\ pc = "idle"
       /\ ~db.table /\ db.rows = <<>> /\ db.seq = 0

C6_Witness == ~csv.exists /\ Len(log) >= 1 /\ ~db.table

\* C7 as stated: a run over a present source with zero rows ends as "empty
\* source".
C7_ZeroRowsFail ==
    (csv.exists /\ csv.rows = <<>>)
    => \A i \in 1..Len(log) : log[i].outcome = "empty_source"

\* C7 amended: a file with no header line ends every run as "empty source"
\* with the store not opened; a file with a header line and no rows ends
\* every run as a completed import of zero records.
C7_EmptyFileFails ==
    /\ (csv.exists /\ ~csv.header)
       => /\ \A i \in 1..Len(log) :
                 log[i] = [outcome |-> "empty_source", imported |-> 0, skipped |-> 0]
          /\ conn = "None" /\ ~db.table /\ db.rows = <<>>
    /\ (csv.exists /\ csv.header /\ csv.rows = <<>>)
       => /\ \A i \in 1..Len(log) :
                 log[i] = [outcome |-> "completed", imported |-> 0, skipped |-> 0]
          /\ db.rows = <<>>

\* a run over a header-only file has completed
C7_Witness ==
    /\ csv.exists /\ csv.header /\ csv.rows = <<>>
    /\ log # <<>> /\ Last(log).outcome = "completed"
    /\ db.table /\ db.rows = <<>>

\* C8: after two completed runs over the same source the store has twice
\* the valid rows of the source, the second half repeating the first, and
\* no two records have the same id.
C8_TwiceDuplicates ==
    CompletedRuns = 2
    => /\ Len(db.rows) = 2 * NValid
       /\ \A i \in 1..NValid :
              /\ db.rows[NValid + i].product_name = db.rows[i].product_name
              /\ db.rows[NValid + i].price = db.rows[i].price
       /\ \A i, j \in 1..Len(db.rows) : i # j => db.rows[i].id # db.rows[j].id

C8_Witness == CompletedRuns = 2 /\ NValid >= 1 /\ Len(db.rows) = 2 * NValid

\* C9: no persisted record has a price below zero.
C9_NonNegativePrice ==
    \A i \in 1..Len(db.rows) : db.rows[i].price.m >= 0

\* C10: a step of get_products, chat or otpless_verify, whatever its
\* response, leaves the products table and its records as they are.
C10_EndpointsReadOnly ==
    [][ ~ImporterStep
        => /\ db'.rows = db.rows /\ db'.seq = db.seq /\ db'.table = db.table
           /\ txn' = txn ]_vars

\* a listing has returned the records of the store
C10_Witness ==
    /\ resp.status = 200 /\ resp.kind = "products"
    /\ resp.products # <<>> /\ resp.products = db.rows
====
